---- MODULE Spec2Model ----
(***************************************************************************)
(* State-machine model of backend/nlp_query_demo.py: the asynchronous      *)
(* document ingestion (DocumentProcessor.process_documents, spawned by     *)
(* upload_documents), the job table INGEST_STATUS, the SQLite tables       *)
(* documents and doc_index, the ranked text search (search_documents) and  *)
(* the cached query engine (QueryEngine.process_query over QUERY_CACHE).   *)
(*                                                                         *)
(* Text is a sequence of one-character strings, so that lower-casing,      *)
(* tokenizing and substring tests are computed as the code computes them.  *)
(* One action is one synchronous stretch of code on the asyncio event      *)
(* loop: from one suspension point (await) to the next.  The states of the *)
(* model are therefore exactly the states another request can observe.     *)
(* SpecLoop serves the loop's ready queue in order; the other              *)
(* specifications take the steps of the tasks and the requests in any      *)
(* order, which allows every schedule of the loop and more.                *)
(***************************************************************************)
EXTENDS Integers, Sequences, FiniteSets, Bags, TLC

(***************************************************************************)
(* Bounds of the model.                                                    *)
(***************************************************************************)
\* upload requests accepted in one run
MaxJobs == 2
\* calls of process_query in one run
MaxCalls == 2
\* calls of process_query in a run that only queries
MaxCacheCalls == 4
\* largest top_k a search is asked for
MaxTopK == 2
\* capacity of QUERY_CACHE, scaled down from LRUCache(maxsize=200), line 38
maxsize == 2
\* status requests received and not yet served
MaxPending == 1

(***************************************************************************)
(* Characters and strings.                                                 *)
(***************************************************************************)
UPPER == <<"A", "B", "C", "D", "E", "F", "G", "H", "I", "J", "K", "L", "M",
           "N", "O", "P", "Q", "R", "S", "T", "U", "V", "W", "X", "Y", "Z">>

LOWER == <<"a", "b", "c", "d", "e", "f", "g", "h", "i", "j", "k", "l", "m",
           "n", "o", "p", "q", "r", "s", "t", "u", "v", "w", "x", "y", "z">>

DIGITS == <<"0", "1", "2", "3", "4", "5", "6", "7", "8", "9">>

Range(s) == {s[i] : i \in 1..Len(s)}

\* str.lower() on one character
lower_char(c) ==
    IF c \in Range(UPPER) THEN LOWER[CHOOSE i \in 1..Len(UPPER) : UPPER[i] = c]
    ELSE c

\* str.lower()
str_lower(s) == [i \in 1..Len(s) |-> lower_char(s[i])]

\* Python's  sub in s
Contains(s, sub) ==
    \E i \in 1..(Len(s) - Len(sub) + 1) : SubSeq(s, i, i + Len(sub) - 1) = sub

\* the character class [a-zA-Z0-9\+\#\.\-] of tokenize
TOKEN_CHARS == Range(LOWER) \cup Range(UPPER) \cup Range(DIGITS) \cup {"+", "#", ".", "-"}

RECURSIVE findall(_, _, _, _)
\* re.findall of the maximal runs of TOKEN_CHARS in s, scanning from position i
findall(s, i, run, acc) ==
    IF i > Len(s) THEN (IF run = <<>> THEN acc ELSE Append(acc, run))
    ELSE IF s[i] \in TOKEN_CHARS THEN findall(s, i + 1, Append(run, s[i]), acc)
    ELSE findall(s, i + 1, <<>>, IF run = <<>> THEN acc ELSE Append(acc, run))

\* tokenize(text): the list of terms, in order, repeats kept
tokenize(text) == findall(str_lower(text), 1, <<>>, <<>>)


(***************************************************************************)
(* Inputs: the uploaded files.  A file is given by its name and by the     *)
(* text that lines 140-157 derive from its bytes (UTF-8 or Latin-1         *)
(* decoding, then the CSV content column for a .csv name); that text is    *)
(* what is stored as the document's content.                               *)
(***************************************************************************)
\* "Python Engineer NY"
FILE_A == [filename |-> "a.txt",
           content |-> <<"P", "y", "t", "h", "o", "n", " ", "E", "n", "g", "i", "n",
                         "e", "e", "r", " ", "N", "Y">>]

\* "python\nGo python"
FILE_B == [filename |-> "b.txt",
           content |-> <<"p", "y", "t", "h", "o", "n", "\n", "G", "o", " ",
                         "p", "y", "t", "h", "o", "n">>]

\* "C++ engineer"
FILE_C == [filename |-> "c.txt",
           content |-> <<"C", "+", "+", " ", "e", "n", "g", "i", "n", "e", "e", "r">>]

Files == {FILE_A, FILE_B, FILE_C}

\* the lists of files one upload request can carry
Batches == {<<>>, <<FILE_A>>, <<FILE_B, FILE_C>>}

(***************************************************************************)
(* State.                                                                  *)
(***************************************************************************)
VARIABLES
    uuid_count,     \* number of uuid4() values drawn so far; the k-th drawn is k
    tasks,          \* job id -> the process_documents task spawned for it: its
                    \* files, loop position, suspension point and the doc ids
                    \* it has drawn
    INGEST_STATUS,  \* the module-level job table, line 37
    documents,      \* committed rows of table documents
    doc_index,      \* committed rows of table doc_index, a bag of <<term, doc_id>>
    QUERY_CACHE,    \* the LRUCache, least recently used entry first
    heap,           \* the result dicts process_query has built, by reference
    returned,       \* log of the process_query calls: the query, whether its key
                    \* was cached and how many documents were stored when the
                    \* call started, whether the store raised, whether the call
                    \* raised, and the dict it returned as it was on return
    response,       \* body of the last HTTP response sent
    ready           \* the event loop's queue of callbacks ready to run, in the
                    \* order they were scheduled: the first steps of the
                    \* spawned tasks and the handlers of requests received

vars == <<uuid_count, tasks, INGEST_STATUS, documents, doc_index,
          QUERY_CACHE, heap, returned, response, ready>>

ingest_vars == <<uuid_count, tasks, INGEST_STATUS, documents, doc_index>>

query_vars == <<QUERY_CACHE, heap, returned>>

NOT_FOUND == [error |-> "not found"]

Init ==
    /\ uuid_count = 0
    /\ tasks = <<>>
    /\ INGEST_STATUS = <<>>
    /\ documents = {}
    /\ doc_index = EmptyBag
    /\ QUERY_CACHE = <<>>
    /\ heap = <<>>
    /\ returned = <<>>
    /\ response = [endpoint |-> "none"]
    /\ ready = <<>>

(***************************************************************************)
(* Ingestion.                                                              *)
(***************************************************************************)
\* str(uuid.uuid4()): a value never drawn before
uuid4(count) == count + 1

\* d[k] = v on a dict
dict_set(d, k, v) == [x \in DOMAIN d \cup {k} |-> IF x = k THEN v ELSE d[x]]

\* the bag of the elements of a list
BagOfSeq(s) == [x \in Range(s) |-> Cardinality({i \in 1..Len(s) : s[i] = x})]

\* mutant: the row replaces the stored document of the same name
insert_document_by_name(docs, row) ==
    {d \in docs : d.doc_name # row.doc_name} \cup {row}

\* lines 161-162: INSERT INTO documents
insert_document(docs, row) == docs \cup {row}

\* mutant: one doc_index row per element of tokenize(content), repeats included
index_rows_per_token(content, doc_id) ==
    BagOfSeq([i \in 1..Len(tokenize(content)) |-> <<tokenize(content)[i], doc_id>>])

\* lines 163-164: one doc_index row per element of set(tokenize(content))
index_rows(content, doc_id) ==
    SetToBag({<<term, doc_id>> : term \in Range(tokenize(content))})

\* line 137: the record a job starts with
new_status(total) == [total |-> total, processed |-> 0, done |-> FALSE]

\* mutant: the count is advanced once after the insert and once after the commit
advance_twice(st) == [st EXCEPT !.processed = @ + 2]

\* line 166: INGEST_STATUS[job_id]["processed"] += 1
advance(st) == [st EXCEPT !.processed = @ + 1]

\* line 168: INGEST_STATUS[job_id]["done"] = True
complete(st) == [st EXCEPT !.done = TRUE]

\* the callback asyncio.create_task schedules: the first step of the task
task_step(job_id) == [callback |-> "process_documents", job_id |-> job_id]

\* the entries of the queue other than the first step of job_id's task
without_step(queue, job_id) == SelectSeq(queue, LAMBDA e : e # task_step(job_id))

\* lines 314-318: the endpoint draws the job id, spawns the task, whose first
\* step create_task puts at the end of the ready queue, and returns; the task
\* has not run yet
upload_documents(files) ==
    /\ LET job_id == uuid4(uuid_count) IN
        /\ uuid_count' = job_id
        /\ tasks' = dict_set(tasks, job_id, [files |-> files, i |-> 1, pc |-> "spawned", doc_ids |-> <<>>])
        /\ ready' = Append(ready, task_step(job_id))
        /\ response' = [endpoint |-> "upload", body |-> [job_id |-> job_id]]
    /\ UNCHANGED <<INGEST_STATUS, documents, doc_index, query_vars>>

\* mutant: the first step suspends in the first read before the job record is
\* created; the record is created when the task is resumed
process_documents_begin_late(job_id) ==
    /\ tasks[job_id].pc = "spawned"
    /\ LET total == Len(tasks[job_id].files)
           st == new_status(total) IN
        IF total = 0
        THEN /\ INGEST_STATUS' = dict_set(INGEST_STATUS, job_id, complete(st))
             /\ tasks' = [tasks EXCEPT ![job_id].pc = "finished"]
        ELSE /\ INGEST_STATUS' = INGEST_STATUS
             /\ tasks' = [tasks EXCEPT ![job_id].pc = "read"]
    /\ ready' = without_step(ready, job_id)
    /\ UNCHANGED <<uuid_count, documents, doc_index, query_vars, response>>

\* mutant: the first step replaces the job table by a table of its own record
process_documents_begin_alone(job_id) ==
    /\ tasks[job_id].pc = "spawned"
    /\ LET total == Len(tasks[job_id].files)
           st == new_status(total) IN
        IF total = 0
        THEN /\ INGEST_STATUS' = dict_set(<<>>, job_id, complete(st))
             /\ tasks' = [tasks EXCEPT ![job_id].pc = "finished"]
        ELSE /\ INGEST_STATUS' = dict_set(<<>>, job_id, st)
             /\ tasks' = [tasks EXCEPT ![job_id].pc = "read"]
    /\ ready' = without_step(ready, job_id)
    /\ UNCHANGED <<uuid_count, documents, doc_index, query_vars, response>>

\* lines 136-140 (and 168 for an empty list): the task's first step creates the
\* job record and runs to the first  await file.read()
process_documents_begin(job_id) ==
    /\ tasks[job_id].pc = "spawned"
    /\ LET total == Len(tasks[job_id].files)
           st == new_status(total) IN
        IF total = 0
        THEN /\ INGEST_STATUS' = dict_set(INGEST_STATUS, job_id, complete(st))
             /\ tasks' = [tasks EXCEPT ![job_id].pc = "finished"]
        ELSE /\ INGEST_STATUS' = dict_set(INGEST_STATUS, job_id, st)
             /\ tasks' = [tasks EXCEPT ![job_id].pc = "read"]
    /\ ready' = without_step(ready, job_id)
    /\ UNCHANGED <<uuid_count, documents, doc_index, query_vars, response>>

\* mutant: the task yields after the commit and counts the document when it
\* is resumed
process_documents_file_uncounted(job_id) ==
    /\ tasks[job_id].pc = "read"
    /\ LET file == tasks[job_id].files[tasks[job_id].i]
           doc_id == uuid4(uuid_count) IN
        /\ \A d \in documents : d.doc_id # doc_id
        /\ uuid_count' = doc_id
        /\ documents' = insert_document(documents,
               [doc_id |-> doc_id, doc_name |-> file.filename, content |-> file.content])
        /\ doc_index' = doc_index (+) index_rows(file.content, doc_id)
        /\ INGEST_STATUS' = INGEST_STATUS
        /\ tasks' = [tasks EXCEPT ![job_id].pc = "sleep",
                                  ![job_id].doc_ids = Append(@, doc_id)]
    /\ UNCHANGED <<query_vars, response, ready>>

\* mutant: the document row is committed and counted, its index rows are not
process_documents_file_unindexed(job_id) ==
    /\ tasks[job_id].pc = "read"
    /\ LET file == tasks[job_id].files[tasks[job_id].i]
           doc_id == uuid4(uuid_count) IN
        /\ \A d \in documents : d.doc_id # doc_id
        /\ uuid_count' = doc_id
        /\ documents' = insert_document(documents,
               [doc_id |-> doc_id, doc_name |-> file.filename, content |-> file.content])
        /\ doc_index' = doc_index
        /\ INGEST_STATUS' = [INGEST_STATUS EXCEPT ![job_id] = advance(@)]
        /\ tasks' = [tasks EXCEPT ![job_id].pc = "sleep",
                                  ![job_id].doc_ids = Append(@, doc_id)]
    /\ UNCHANGED <<query_vars, response, ready>>

\* lines 140-167: the file is read, its document and index rows are inserted and
\* committed in one transaction, the job's count is advanced, and the task
\* suspends in  await asyncio.sleep(0)
process_documents_file(job_id) ==
    /\ tasks[job_id].pc = "read"
    /\ LET file == tasks[job_id].files[tasks[job_id].i]
           doc_id == uuid4(uuid_count) IN
        \* doc_id is the PRIMARY KEY of documents
        /\ \A d \in documents : d.doc_id # doc_id
        /\ uuid_count' = doc_id
        /\ documents' = insert_document(documents,
               [doc_id |-> doc_id, doc_name |-> file.filename, content |-> file.content])
        /\ doc_index' = doc_index (+) index_rows(file.content, doc_id)
        /\ INGEST_STATUS' = [INGEST_STATUS EXCEPT ![job_id] = advance(@)]
        /\ tasks' = [tasks EXCEPT ![job_id].pc = "sleep",
                                  ![job_id].doc_ids = Append(@, doc_id)]
    /\ UNCHANGED <<query_vars, response, ready>>

\* lines 140, 161-165: file.read() or a statement of the transaction raises;
\* nothing is caught in process_documents, so the task ends with the exception
\* and its uncommitted rows are never visible
process_documents_raise(job_id) ==
    /\ tasks[job_id].pc = "read"
    /\ tasks' = [tasks EXCEPT ![job_id].pc = "raised"]
    /\ UNCHANGED <<uuid_count, INGEST_STATUS, documents, doc_index, query_vars, response, ready>>

\* lines 138-140, 168: resumed after sleep(0), the loop goes to the next file's
\* read, or ends and the job is marked done
process_documents_resume(job_id) ==
    /\ tasks[job_id].pc = "sleep"
    /\ IF tasks[job_id].i < Len(tasks[job_id].files)
       THEN /\ tasks' = [tasks EXCEPT ![job_id].i = @ + 1, ![job_id].pc = "read"]
            /\ UNCHANGED INGEST_STATUS
       ELSE /\ tasks' = [tasks EXCEPT ![job_id].pc = "finished"]
            /\ INGEST_STATUS' = [INGEST_STATUS EXCEPT ![job_id] = complete(@)]
    /\ UNCHANGED <<uuid_count, documents, doc_index, query_vars, response, ready>>

\* mutant: an unknown key is answered with a blank job record
dict_get_blank(d, k, default) ==
    IF k \in DOMAIN d THEN d[k] ELSE [total |-> 0, processed |-> 0, done |-> FALSE]

\* dict.get(key, default)
dict_get(d, k, default) == IF k \in DOMAIN d THEN d[k] ELSE default

\* lines 321-323
ingest_status(job_id) ==
    /\ response' = [endpoint |-> "status", job_id |-> job_id,
                    body |-> dict_get(INGEST_STATUS, job_id, NOT_FOUND)]
    /\ UNCHANGED <<ingest_vars, query_vars>>

Upload ==
    /\ Cardinality(DOMAIN tasks) < MaxJobs
    /\ \E files \in Batches : upload_documents(files)

Begin == \E job_id \in DOMAIN tasks : process_documents_begin(job_id)

File == \E job_id \in DOMAIN tasks : process_documents_file(job_id)

Raise == \E job_id \in DOMAIN tasks : process_documents_raise(job_id)

Resume == \E job_id \in DOMAIN tasks : process_documents_resume(job_id)

\* a status request names a job id an upload returned, or an id none returned;
\* it is received and served at any time
Status ==
    /\ \E job_id \in DOMAIN tasks \cup {uuid_count + 1} : ingest_status(job_id)
    /\ UNCHANGED ready

Next == Upload \/ Begin \/ File \/ Raise \/ Resume \/ Status

\* uploads and their ingestion tasks alone
NextIngest == Upload \/ Begin \/ File \/ Raise \/ Resume

SpecIngest == Init /\ [][NextIngest]_vars

\* uploads, their ingestion tasks and status requests, in any interleaving
Spec == Init /\ [][Next]_vars


(***************************************************************************)
(* Text search.                                                            *)
(***************************************************************************)
\* the 150 of  r[1][:150], line 186
SNIPPET_LEN == 150

\* the top_k process_query asks for, line 226
QUERY_TOP_K == 5

RECURSIVE count_rows(_, _, _)
\* COUNT(*) of the rows of index whose doc_id is doc_id and whose term is in terms
count_rows(index, terms, doc_id) ==
    IF terms = {} THEN 0
    ELSE LET term == CHOOSE t \in terms : TRUE IN
         CopiesIn(<<term, doc_id>>, index) + count_rows(index, terms \ {term}, doc_id)

\* GROUP BY doc_id over the rows WHERE term IN (terms)
matching_docs(index, terms) == {row[2] : row \in {r \in BagToSet(index) : r[1] \in terms}}

RECURSIVE ranked_unordered(_, _, _)
\* mutant: the statement has no ORDER BY: the groups come in any order
ranked_unordered(counts, groups, n) ==
    IF groups = {} \/ n = 0 THEN {<<>>}
    ELSE UNION {{<<d>> \o rest : rest \in ranked_unordered(counts, groups \ {d}, n - 1)} :
                   d \in groups}

RECURSIVE ranked(_, _, _)
\* ORDER BY COUNT(*) DESC LIMIT n over the groups, counts[d] being the COUNT(*)
\* of group d: every order of the groups by non-increasing count (SQL leaves
\* the order among equal counts open), cut to n rows; a negative LIMIT cuts
\* nothing
ranked(counts, groups, n) ==
    IF groups = {} \/ n = 0 THEN {<<>>}
    ELSE LET best == {d \in groups : \A e \in groups : counts[e] <= counts[d]} IN
         UNION {{<<d>> \o rest : rest \in ranked(counts, groups \ {d}, n - 1)} : d \in best}

\* r[1][:150].replace("\n", " ")
snippet_of(content) ==
    LET cut == SubSeq(content, 1, IF Len(content) < SNIPPET_LEN THEN Len(content) ELSE SNIPPET_LEN) IN
    [i \in 1..Len(cut) |-> IF cut[i] = "\n" THEN " " ELSE cut[i]]

\* lines 180-188: the result list built from the rows <<doc_id, hits>>,
\* skipping a row whose document is not found
build_results(docs, counts, rows) ==
    LET found == SelectSeq(rows, LAMBDA id : \E d \in docs : d.doc_id = id) IN
    [i \in 1..Len(found) |->
        LET r == CHOOSE d \in docs : d.doc_id = found[i] IN
        [doc_id |-> found[i], doc_name |-> r.doc_name,
         snippet |-> snippet_of(r.content), score |-> counts[found[i]]]]

\* lines 170-188: the result lists search_documents(query, top_k) can return on
\* the committed tables
search_documents(docs, index, query, top_k) ==
    LET terms == Range(tokenize(query)) IN
    IF terms = {} THEN {<<>>}
    ELSE LET groups == matching_docs(index, terms)
             counts == [d \in groups |-> count_rows(index, terms, d)] IN
         {build_results(docs, counts, rows) : rows \in ranked(counts, groups, top_k)}

(***************************************************************************)
(* Query classification and translation.                                   *)
(***************************************************************************)
\* mutant: the structured triggers are tested before the text triggers
simple_query_classifier_sql_first(q) ==
    LET ql == str_lower(q) IN
    IF \/ Contains(ql, <<"e", "m", "p", "l", "o", "y", "e", "e">>)
       \/ Contains(ql, <<"s", "a", "l", "a", "r", "y">>)
       \/ Contains(ql, <<"h", "i", "r", "e", "d">>)
    THEN "sql"
    ELSE IF \/ Contains(ql, <<"d", "o", "c", "u", "m", "e", "n", "t">>)
            \/ Contains(ql, <<"r", "e", "s", "u", "m", "e">>)
            \/ Contains(ql, <<"s", "k", "i", "l", "l">>)
    THEN "doc"
    ELSE "hybrid"

\* lines 192-198
simple_query_classifier(q) ==
    LET ql == str_lower(q) IN
    IF \/ Contains(ql, <<"d", "o", "c", "u", "m", "e", "n", "t">>)
       \/ Contains(ql, <<"r", "e", "s", "u", "m", "e">>)
       \/ Contains(ql, <<"s", "k", "i", "l", "l">>)
    THEN "doc"
    ELSE IF \/ Contains(ql, <<"e", "m", "p", "l", "o", "y", "e", "e">>)
            \/ Contains(ql, <<"s", "a", "l", "a", "r", "y">>)
            \/ Contains(ql, <<"h", "i", "r", "e", "d">>)
    THEN "sql"
    ELSE "hybrid"

\* value of a decimal digit
digit_value(c) == (CHOOSE i \in 1..Len(DIGITS) : DIGITS[i] = c) - 1

RECURSIVE parse_int(_, _, _)
\* int() of the maximal run of digits of s that starts at position i
parse_int(s, i, acc) ==
    IF i <= Len(s) /\ s[i] \in Range(DIGITS)
    THEN parse_int(s, i + 1, 10 * acc + digit_value(s[i]))
    ELSE acc

\* re.search(r"top (\d+)", ql): the positions where the pattern matches
top_matches(ql) ==
    {i \in 1..(Len(ql) - 4) :
        /\ SubSeq(ql, i, i + 3) = <<"t", "o", "p", " ">>
        /\ ql[i + 4] \in Range(DIGITS)}

\* str(time.localtime().tm_year), line 244
CURRENT_YEAR == "2026"

\* mutant: the hired-this-year pattern is tested before the top-N pattern
nl_to_sql_hired_before_top(q) ==
    LET ql == str_lower(q) IN
    IF Contains(ql, <<"h", "o", "w", " ", "m", "a", "n", "y", " ",
                      "e", "m", "p", "l", "o", "y", "e", "e", "s">>)
    THEN [sql |-> "SELECT COUNT(*) as total FROM employees", params |-> <<>>]
    ELSE IF Contains(ql, <<"a", "v", "e", "r", "a", "g", "e", " ", "s", "a", "l", "a", "r", "y", " ",
                           "b", "y", " ", "d", "e", "p", "a", "r", "t", "m", "e", "n", "t">>)
    THEN [sql |-> "SELECT d.dept_name, AVG(e.annual_salary) as avg_salary FROM employees e JOIN departments d ON e.dept_id=d.dept_id GROUP BY d.dept_name",
          params |-> <<>>]
    ELSE IF Contains(ql, <<"h", "i", "r", "e", "d", " ", "t", "h", "i", "s", " ", "y", "e", "a", "r">>)
    THEN [sql |-> "SELECT * FROM employees WHERE substr(join_date,1,4)=?", params |-> <<CURRENT_YEAR>>]
    ELSE IF /\ Contains(ql, <<"t", "o", "p">>)
            /\ Contains(ql, <<"h", "i", "g", "h", "e", "s", "t", " ", "p", "a", "i", "d">>)
    THEN LET m == top_matches(ql)
             n == IF m # {} THEN parse_int(ql, (CHOOSE i \in m : \A j \in m : i <= j) + 4, 0)
                  ELSE 5 IN
         [sql |-> "SELECT * FROM employees ORDER BY annual_salary DESC LIMIT ?", params |-> <<n>>]
    ELSE [sql |-> "SELECT * FROM employees LIMIT 10", params |-> <<>>]

\* lines 232-246
nl_to_sql(q) ==
    LET ql == str_lower(q) IN
    IF Contains(ql, <<"h", "o", "w", " ", "m", "a", "n", "y", " ",
                      "e", "m", "p", "l", "o", "y", "e", "e", "s">>)
    THEN [sql |-> "SELECT COUNT(*) as total FROM employees", params |-> <<>>]
    ELSE IF Contains(ql, <<"a", "v", "e", "r", "a", "g", "e", " ", "s", "a", "l", "a", "r", "y", " ",
                           "b", "y", " ", "d", "e", "p", "a", "r", "t", "m", "e", "n", "t">>)
    THEN [sql |-> "SELECT d.dept_name, AVG(e.annual_salary) as avg_salary FROM employees e JOIN departments d ON e.dept_id=d.dept_id GROUP BY d.dept_name",
          params |-> <<>>]
    ELSE IF /\ Contains(ql, <<"t", "o", "p">>)
            /\ Contains(ql, <<"h", "i", "g", "h", "e", "s", "t", " ", "p", "a", "i", "d">>)
    THEN LET m == top_matches(ql)
             n == IF m # {} THEN parse_int(ql, (CHOOSE i \in m : \A j \in m : i <= j) + 4, 0)
                  ELSE 5 IN
         [sql |-> "SELECT * FROM employees ORDER BY annual_salary DESC LIMIT ?", params |-> <<n>>]
    ELSE IF Contains(ql, <<"h", "i", "r", "e", "d", " ", "t", "h", "i", "s", " ", "y", "e", "a", "r">>)
    THEN [sql |-> "SELECT * FROM employees WHERE substr(join_date,1,4)=?", params |-> <<CURRENT_YEAR>>]
    ELSE [sql |-> "SELECT * FROM employees LIMIT 10", params |-> <<>>]

\* lines 219-223: the rows of a statement on the tables employees and
\* departments, which nothing in the program writes: they are a function of
\* the statement and its parameters, and are named by them
execute_sql(sql, params) == <<[rows_of |-> sql, params |-> params]>>


(***************************************************************************)
(* The result cache: cachetools.LRUCache, as a list of entries             *)
(* [key, value] with the least recently used entry first.                  *)
(***************************************************************************)
\* key in cache: no change of recency
cache_contains(cache, key) == \E i \in 1..Len(cache) : cache[i].key = key

\* the entries of cache other than key's, in order
cache_without(cache, key) == SelectSeq(cache, LAMBDA e : e.key # key)

\* mutant: the read does not refresh the recency of the key
cache_getitem_untouched(cache, key) ==
    LET e == cache[CHOOSE i \in 1..Len(cache) : cache[i].key = key] IN
    [value |-> e.value, cache |-> cache]

\* cache[key] of a present key: its value, and the entry moved to the most
\* recently used end
cache_getitem(cache, key) ==
    LET e == cache[CHOOSE i \in 1..Len(cache) : cache[i].key = key] IN
    [value |-> e.value, cache |-> Append(cache_without(cache, key), e)]

\* cache[key] = value: a new key first evicts from the least recently used end
\* until there is room; the entry is then the most recently used
cache_setitem(cache, key, value) ==
    IF cache_contains(cache, key)
    THEN Append(cache_without(cache, key), [key |-> key, value |-> value])
    ELSE LET kept == IF Len(cache) + 1 > maxsize
                     THEN SubSeq(cache, Len(cache) + 2 - maxsize, Len(cache))
                     ELSE cache IN
         Append(kept, [key |-> key, value |-> value])

(***************************************************************************)
(* The query engine.                                                       *)
(***************************************************************************)
\* str(e) of an exception the store raises
STORE_ERROR == "database is locked"

\* the "results" of a result dict: a list of rows, or {"error": message}
rows_payload(rows) == [kind |-> "rows", rows |-> rows]

error_payload(message) == [kind |-> "error", error |-> message]

\* an outcome of a block of code: it returned a value, or raised
returned_value(value) == [raised |-> FALSE, value |-> value]

raised_exception(message) == [raised |-> TRUE, message |-> message]

\* lines 214-226, the body of the try: its possible outcomes; store_fails says
\* whether the store raises when a statement reaches it
try_body(q, qtype, store_fails) ==
    IF qtype = "sql"
    THEN LET t == nl_to_sql(q) IN
         IF t.sql = "" THEN {returned_value(error_payload("No SQL generated"))}
         ELSE IF store_fails THEN {raised_exception(STORE_ERROR)}
         ELSE {returned_value(rows_payload(execute_sql(t.sql, t.params)))}
    ELSE IF Range(tokenize(q)) # {} /\ store_fails THEN {raised_exception(STORE_ERROR)}
    ELSE {returned_value(rows_payload(rows)) :
             rows \in search_documents(documents, doc_index, q, QUERY_TOP_K)}

\* mutant: the exception is not caught
except_clause_reraise(outcome) == outcome

\* lines 227-228: except Exception as e: result["results"] = {"error": str(e)}
except_clause(outcome) ==
    IF outcome.raised THEN returned_value(error_payload(outcome.message)) ELSE outcome

\* whether key is a key of QUERY_CACHE when the call starts (kept in the log)
key_present(key) == \E i \in 1..Len(QUERY_CACHE) : QUERY_CACHE[i].key = key

\* mutant: the cached dict is returned without being marked as a hit
process_query_hit_unmarked(q, key) ==
    LET got == cache_getitem(QUERY_CACHE, key)
        res == got.value IN
    /\ QUERY_CACHE' = got.cache
    /\ heap' = heap
    /\ returned' = Append(returned, [query |-> q, present |-> key_present(key),
                                     failed |-> FALSE, raised |-> FALSE,
                                     stored |-> Cardinality(documents),
                                     obj |-> res, result |-> heap[res]])
    /\ response' = [endpoint |-> "query", body |-> heap[res]]

\* lines 208-211: the cached dict is read (which refreshes its recency), marked
\* and returned; the caller holds the dict the cache holds
process_query_hit(q, key) ==
    LET got == cache_getitem(QUERY_CACHE, key)
        res == got.value
        marked == [heap EXCEPT ![res].cached = TRUE] IN
    /\ QUERY_CACHE' = got.cache
    /\ heap' = marked
    /\ returned' = Append(returned, [query |-> q, present |-> key_present(key),
                                     failed |-> FALSE, raised |-> FALSE,
                                     stored |-> Cardinality(documents),
                                     obj |-> res, result |-> marked[res]])
    /\ response' = [endpoint |-> "query", body |-> marked[res]]

\* lines 212-230: a new dict is built, stored in the cache and returned; an
\* exception the try does not catch ends the call before the cache is written
process_query_miss(q, qtype, key, store_fails) ==
    \E tried \in try_body(q, qtype, store_fails) :
        LET outcome == except_clause(tried)
            res == Len(heap) + 1 IN
        IF outcome.raised
        THEN /\ returned' = Append(returned, [query |-> q, present |-> key_present(key),
                                              failed |-> tried.raised, raised |-> TRUE,
                                              stored |-> Cardinality(documents)])
             /\ response' = [endpoint |-> "query", raised |-> outcome.message]
             /\ UNCHANGED <<QUERY_CACHE, heap>>
        ELSE LET result == [query |-> q, type |-> qtype, cached |-> FALSE,
                            results |-> outcome.value] IN
             /\ heap' = Append(heap, result)
             /\ QUERY_CACHE' = cache_setitem(QUERY_CACHE, key, res)
             /\ returned' = Append(returned, [query |-> q, present |-> key_present(key),
                                              failed |-> tried.raised, raised |-> FALSE,
                                              stored |-> Cardinality(documents),
                                              obj |-> res, result |-> result])
             /\ response' = [endpoint |-> "query", body |-> result]

\* lines 206-230
process_query(q, store_fails) ==
    LET qtype == simple_query_classifier(q)
        key == <<q, qtype>> IN
    /\ IF cache_contains(QUERY_CACHE, key)
       THEN process_query_hit(q, key)
       ELSE process_query_miss(q, qtype, key, store_fails)
    /\ UNCHANGED <<ingest_vars, ready>>

\* lines 326-331
query(q, store_fails) ==
    IF q = <<>>
    THEN /\ response' = [endpoint |-> "query", body |-> [error |-> "empty query"]]
         /\ UNCHANGED <<ingest_vars, query_vars, ready>>
    ELSE process_query(q, store_fails)

(***************************************************************************)
(* Inputs: the query texts.                                                *)
(***************************************************************************)
\* "ny engineer"
Q_ENGINEER == <<"n", "y", " ", "e", "n", "g", "i", "n", "e", "e", "r">>

\* "python skill"
Q_SKILL == <<"p", "y", "t", "h", "o", "n", " ", "s", "k", "i", "l", "l">>

\* "top 2 highest paid salary"
Q_TOP == <<"t", "o", "p", " ", "2", " ", "h", "i", "g", "h", "e", "s", "t", " ",
           "p", "a", "i", "d", " ", "s", "a", "l", "a", "r", "y">>

\* "?!"
Q_MARKS == <<"?", "!">>

Queries == {Q_ENGINEER, Q_SKILL, Q_TOP, Q_MARKS}

(***************************************************************************)
(* Specifications.                                                         *)
(***************************************************************************)
\* one upload, its ingestion task, and queries in any interleaving with it
UploadOne ==
    /\ tasks = <<>>
    /\ \E files \in Batches : upload_documents(files)

Query ==
    /\ Len(returned) < MaxCalls
    /\ \E q \in Queries \cup {<<>>}, store_fails \in BOOLEAN : query(q, store_fails)

NextQuery == UploadOne \/ Begin \/ File \/ Raise \/ Resume \/ Query

SpecQuery == Init /\ [][NextQuery]_vars

\* queries alone, enough of them to overflow the cache
CacheQuery ==
    /\ Len(returned) < MaxCacheCalls
    /\ \E q \in Queries, store_fails \in BOOLEAN : query(q, store_fails)

SpecCache == Init /\ [][CacheQuery]_vars

\* the event loop runs every task that is ready: each step of an ingestion
\* task that is enabled is eventually taken
TaskStep == Begin \/ File \/ Raise \/ Resume

FairSpec == Spec /\ WF_vars(TaskStep)


(***************************************************************************)
(* Properties.                                                             *)
(***************************************************************************)
\* the payload of a result dict: everything but the cache-hit flag
payload(r) == [query |-> r.query, type |-> r.type, results |-> r.results]

\* the calls after call i, up to call j, that ask the query of call i
same_query_calls(i, j) == {k \in (i + 1)..j : returned[k].query = returned[i].query}

(* C1: cache round-trip.  Of two calls of process_query with the same query     *)
(* text, where the key was still in the cache at every call of that text after *)
(* the first (it was not evicted in between), the later one returns a result   *)
(* flagged as a cache hit whose payload (query, route, results) equals the     *)
(* payload the earlier one returned, whatever was ingested in between.         *)
C1_CacheRoundTrip ==
    \A i, j \in 1..Len(returned) :
        (/\ i < j
         /\ returned[i].query = returned[j].query
         /\ \A k \in same_query_calls(i, j) : returned[k].present)
        => /\ ~returned[i].raised
           /\ ~returned[j].raised
           /\ returned[j].result.cached = TRUE
           /\ payload(returned[j].result) = payload(returned[i].result)

\* "ny engineer" was answered with no document stored, a document that matches
\* it was ingested, and the second call is a hit with the first call's rows
C1_Witness ==
    /\ Len(returned) = 2
    /\ returned[1].query = Q_ENGINEER
    /\ returned[2].query = Q_ENGINEER
    /\ returned[1].stored = 0
    /\ returned[2].stored > 0
    /\ returned[2].present
    /\ returned[2].result.cached
    /\ returned[2].result.results = rows_payload(<<>>)
    /\ <<>> \notin search_documents(documents, doc_index, Q_ENGINEER, QUERY_TOP_K)

(* C9: process_query returns normally for every query text and every store     *)
(* outcome: no call ends with an exception, every returned result carries the  *)
(* query text it was asked and the route of that text, and a call during which *)
(* the store raised returns the failure in the error field of its payload.     *)
C9_ErrorsCaptured ==
    \A i \in 1..Len(returned) :
        /\ ~returned[i].raised
        /\ returned[i].result.query = returned[i].query
        /\ returned[i].result.type = simple_query_classifier(returned[i].query)
        /\ returned[i].failed =>
              /\ returned[i].result.results.kind = "error"
              /\ returned[i].result.results.error = STORE_ERROR

\* the store raised under a translated query and under a text search, and both
\* calls returned an error payload
C9_Witness ==
    \E i, j \in 1..Len(returned) :
        /\ returned[i].failed
        /\ returned[i].result.type = "sql"
        /\ returned[i].result.results.kind = "error"
        /\ returned[j].failed
        /\ returned[j].result.type \in {"doc", "hybrid"}
        /\ returned[j].result.results.kind = "error"


\* the job records: what ingest_status returns for a job of the table
IngestJobFields == {"total", "processed", "done"}

\* the jobs whose task has created their record
started_jobs == DOMAIN INGEST_STATUS

(* C2: for a batch of N documents, every status read returns a completion flag *)
(* that is false while processed < N and true once processed = N: no read      *)
(* returns processed = total together with done = false.                       *)
C2_DoneIffAllProcessed ==
    (response.endpoint = "status" /\ DOMAIN response.body = IngestJobFields)
    => (response.body.done <=> response.body.processed = response.body.total)

\* a job's record is within its bounds
status_in_range(job_id) ==
    /\ INGEST_STATUS[job_id].total = Len(tasks[job_id].files)
    /\ 0 <= INGEST_STATUS[job_id].processed
    /\ INGEST_STATUS[job_id].processed <= INGEST_STATUS[job_id].total

\* a step changes a job's count by nothing or by +1, never its total, and a
\* record that appears starts at 0
status_step(job_id) ==
    IF job_id \in started_jobs
    THEN /\ job_id \in DOMAIN INGEST_STATUS'
         /\ INGEST_STATUS'[job_id].total = INGEST_STATUS[job_id].total
         /\ INGEST_STATUS'[job_id].processed \in
                {INGEST_STATUS[job_id].processed, INGEST_STATUS[job_id].processed + 1}
    ELSE job_id \in DOMAIN INGEST_STATUS' => INGEST_STATUS'[job_id].processed = 0

(* C3: for every ingestion job the processed count starts at 0, changes only   *)
(* by steps of +1, never decreases and stays within 0..total in every          *)
(* reachable state, under any interleaving of concurrent batches and status    *)
(* reads; the total never changes after the job is created.                    *)
C3_ProcessedMonotonic ==
    /\ [](\A job_id \in started_jobs : status_in_range(job_id))
    /\ [][\A job_id \in DOMAIN tasks' : status_step(job_id)]_vars

\* two batches are under way at once, one of them counted up to its total, and
\* a status read has returned the other's count of 1 of 2
C3_Witness ==
    \E a, b \in started_jobs :
        /\ a # b
        /\ INGEST_STATUS[a].processed = 1
        /\ INGEST_STATUS[a].total = 1
        /\ INGEST_STATUS[b].processed = 1
        /\ INGEST_STATUS[b].total = 2
        /\ response.endpoint = "status"
        /\ response.body = INGEST_STATUS[b]

\* the ids a run can draw: one per upload and one per file, at most two files
\* to an upload
IdSpace == 1..(3 * MaxJobs)

\* the job has reached its terminal state
terminal(job_id) ==
    /\ job_id \in started_jobs
    /\ INGEST_STATUS[job_id].done
    /\ INGEST_STATUS[job_id].processed = INGEST_STATUS[job_id].total

(* C4: once an ingestion batch starts it runs to completion: under fair         *)
(* scheduling of the ingestion task every started job eventually reaches the   *)
(* terminal state processed = total with the completion flag set, also when    *)
(* the processing of a document fails.                                         *)
C4_RunsToCompletion ==
    \A job_id \in IdSpace : (job_id \in DOMAIN tasks) ~> terminal(job_id)

\* the documents of job_id's files, by the ids its task drew for them
doc_of(job_id, i) ==
    [doc_id |-> tasks[job_id].doc_ids[i],
     doc_name |-> tasks[job_id].files[i].filename,
     content |-> tasks[job_id].files[i].content]

\* every input file of every batch, as <<job id, position>>
all_inputs ==
    UNION {{<<job_id, i>> : i \in 1..Len(tasks[job_id].files)} : job_id \in DOMAIN tasks}

(* C7: no lost writes and no duplicate ids under concurrent ingestion: once    *)
(* every batch is complete, the document store holds exactly one Document per  *)
(* input file of every batch, the document ids are pairwise distinct, and the  *)
(* index holds the entries of every one of those documents.                    *)
C7_NoLostWrites ==
    (\A job_id \in DOMAIN tasks : terminal(job_id)) =>
        /\ \A job_id \in DOMAIN tasks : Len(tasks[job_id].doc_ids) = Len(tasks[job_id].files)
        /\ documents = {doc_of(p[1], p[2]) : p \in all_inputs}
        /\ \A d, e \in documents : d.doc_id = e.doc_id => d = e
        /\ Cardinality(documents) = Cardinality(all_inputs)
        /\ \A d \in documents : \A term \in Range(tokenize(d.content)) :
               CopiesIn(<<term, d.doc_id>>, doc_index) >= 1

\* two batches ran interleaved (the second drew a document id between the two
\* of the first), both are complete, and both stored the same file name
C7_Witness ==
    \E a, b \in DOMAIN tasks :
        /\ a # b
        /\ terminal(a)
        /\ terminal(b)
        /\ Len(tasks[a].files) = 2
        /\ Len(tasks[b].files) = 2
        /\ tasks[a].doc_ids[1] < tasks[b].doc_ids[1]
        /\ tasks[b].doc_ids[1] < tasks[a].doc_ids[2]

(* C8: a status request for a job id for which no batch was ever started       *)
(* returns the not-found result, which no job record equals or resembles,      *)
(* raises nothing, and leaves the job table unchanged: it creates no entry for *)
(* that id.                                                                    *)
C8_UnknownJobNotFound ==
    /\ []((response.endpoint = "status" /\ response.job_id \notin DOMAIN tasks)
          => /\ response.body = NOT_FOUND
             /\ DOMAIN response.body # IngestJobFields
             /\ response.job_id \notin started_jobs)
    /\ [][(response' # response /\ response'.endpoint = "status")
          => INGEST_STATUS' = INGEST_STATUS]_vars

\* a status request for an unknown id was answered while a job was in the table
C8_Witness ==
    /\ response.endpoint = "status"
    /\ response.job_id \notin DOMAIN tasks
    /\ response.body = NOT_FOUND
    /\ started_jobs # {}


\* the keys the cache holds
cache_keys(cache) == {cache[i].key : i \in 1..Len(cache)}

\* the cache key of a query text
key_of(q) == <<q, simple_query_classifier(q)>>

\* the last call so far that used key: inserted it, or hit it
last_use(key) ==
    CHOOSE i \in 1..Len(returned) :
        /\ key_of(returned[i].query) = key
        /\ \A k \in (i + 1)..Len(returned) : key_of(returned[k].query) # key

\* the cached key whose last use is the oldest
least_recently_used ==
    CHOOSE key \in cache_keys(QUERY_CACHE) :
        \A other \in cache_keys(QUERY_CACHE) : last_use(key) <= last_use(other)

\* this step is a call of process_query that found its key absent
miss_step ==
    /\ Len(returned') = Len(returned) + 1
    /\ ~returned'[Len(returned')].present

\* a miss inserts its key; into a full cache it evicts exactly the least
\* recently used key, otherwise nothing
eviction_step ==
    miss_step =>
        LET key == key_of(returned'[Len(returned')].query) IN
        cache_keys(QUERY_CACHE') =
            IF Len(QUERY_CACHE) = maxsize
            THEN (cache_keys(QUERY_CACHE) \ {least_recently_used}) \cup {key}
            ELSE cache_keys(QUERY_CACHE) \cup {key}

(* C5: after any sequence of process_query calls the cache holds at most its   *)
(* capacity of entries; a miss that inserts a new key into a full cache evicts *)
(* exactly one entry, the least recently used one, where an insertion and a    *)
(* cache hit both count as a use, so that a key hit before the overflowing     *)
(* insertion is not the one evicted.                                           *)
C5_BoundedLruEviction ==
    /\ [](/\ Len(QUERY_CACHE) <= maxsize
          /\ Cardinality(cache_keys(QUERY_CACHE)) = Len(QUERY_CACHE))
    /\ [][eviction_step]_vars

\* two keys filled the cache, the older one was hit, and the insertion of a
\* third key evicted the other one
C5_Witness ==
    /\ Len(returned) = 4
    /\ returned[1].query = Q_ENGINEER
    /\ returned[2].query = Q_SKILL
    /\ returned[3].query = Q_ENGINEER
    /\ returned[3].present
    /\ returned[4].query = Q_TOP
    /\ ~returned[4].present
    /\ cache_keys(QUERY_CACHE) = {key_of(Q_ENGINEER), key_of(Q_TOP)}

\* the documents a job's count covers
counted_docs ==
    UNION {{doc_of(job_id, i) : i \in 1..INGEST_STATUS[job_id].processed} :
              job_id \in started_jobs}

\* the distinct terms of the input texts, computed once
TERMS == [text \in {f.content : f \in Files} \cup Queries |-> Range(tokenize(text))]

\* the distinct terms of a text
terms_of(text) == IF text \in DOMAIN TERMS THEN TERMS[text] ELSE Range(tokenize(text))

\* every term of the document has exactly one index row for it
index_complete(d) ==
    \A term \in terms_of(d.content) : CopiesIn(<<term, d.doc_id>>, doc_index) = 1

\* every result list a search for term with top_k can return holds the document
found_by(d, term, top_k) ==
    \A res \in search_documents(documents, doc_index, term, top_k) :
        \E n \in 1..Len(res) : res[n].doc_id = d.doc_id

\* the stored documents whose text has the term
docs_with(term) == {d \in documents : term \in terms_of(d.content)}

\* the values of top_k the searches are made with
TopKs == (0..MaxTopK) \cup {QUERY_TOP_K}

\* the terms of the stored documents
stored_terms == UNION {terms_of(d.content) : d \in documents}

\* the counted documents are stored, each with exactly one index entry per
\* distinct term of its text
counted_docs_indexed ==
    \A d \in counted_docs : d \in documents /\ index_complete(d)

(* C6: indexing completeness as claimed: every document counted in its job's   *)
(* processed count is stored, has exactly one index entry per distinct term of *)
(* its text, and is returned by a search for any single term of that text.     *)
C6_IndexedAndAlwaysFound ==
    /\ counted_docs_indexed
    /\ \A term \in stored_terms :
           LET holders == docs_with(term) \cap counted_docs IN
           \A top_k \in TopKs \ {0} : \A d \in holders : found_by(d, term, top_k)

(* C6, amended: every document counted in its job's processed count is stored  *)
(* and has exactly one index entry per distinct term of its text, and every    *)
(* result list a search for a single term of that text returns holds the       *)
(* document when top_k is at least the number of stored documents that have    *)
(* the term.                                                                   *)
C6_IndexedAndFoundWithinTopK ==
    /\ counted_docs_indexed
    /\ \A term \in stored_terms :
           LET holders == docs_with(term) IN
           \A top_k \in {k \in TopKs : Cardinality(holders) <= k} :
               \A res \in search_documents(documents, doc_index, term, top_k) :
                   \A d \in holders \cap counted_docs :
                       \E n \in 1..Len(res) : res[n].doc_id = d.doc_id

\* two counted documents have the term "python", the second of them twice in
\* its text; a search for it with top_k = 2 returns both, and one with
\* top_k = 1 has a result list without the first
C6_Witness ==
    \E d, e \in counted_docs :
        /\ d.content = FILE_A.content
        /\ e.content = FILE_B.content
        /\ docs_with(<<"p", "y", "t", "h", "o", "n">>) = {d, e}
        /\ found_by(d, <<"p", "y", "t", "h", "o", "n">>, 2)
        /\ found_by(e, <<"p", "y", "t", "h", "o", "n">>, 2)
        /\ ~found_by(d, <<"p", "y", "t", "h", "o", "n">>, 1)

\* the number of distinct terms of the query that the document's text has
overlap(q, d) == Cardinality(terms_of(q) \cap terms_of(d.content))

\* what the claim says of one result list of a search with top_k, overlaps[id]
\* being the overlap of the query with the stored document id
ranked_result(overlaps, top_k, res) ==
    /\ Len(res) <= top_k
    /\ \A m, n \in 1..Len(res) : m # n => res[m].doc_id # res[n].doc_id
    /\ \A n \in 1..Len(res) :
           /\ res[n].score > 0
           /\ res[n].doc_id \in DOMAIN overlaps
           /\ res[n].score = overlaps[res[n].doc_id]
    /\ \A n \in 1..(Len(res) - 1) : res[n].score >= res[n + 1].score

(* C10: search(query_text, top_k) returns an empty sequence when the query has *)
(* no terms; otherwise at most top_k results, each document at most once, each *)
(* with a score equal to the number of distinct query terms the document has,  *)
(* in order of non-increasing score, and never a document with no matching     *)
(* term.                                                                       *)
C10_SearchRanking ==
    \A q \in Queries :
        LET overlaps == [id \in {d.doc_id : d \in documents} |->
                            overlap(q, CHOOSE d \in documents : d.doc_id = id)]
            no_terms == terms_of(q) = {} IN
        \A top_k \in TopKs :
            \A res \in search_documents(documents, doc_index, q, top_k) :
                /\ no_terms => res = <<>>
                /\ ranked_result(overlaps, top_k, res)

\* three documents with 2, 1 and 0 of the terms of "ny engineer" are stored:
\* the search returns the first two in that order, and with top_k = 1 the
\* first alone
C10_Witness ==
    \E a, b, c \in documents :
        /\ overlap(Q_ENGINEER, a) = 2
        /\ overlap(Q_ENGINEER, b) = 1
        /\ overlap(Q_ENGINEER, c) = 0
        /\ Cardinality(documents) = 3
        /\ \A res \in search_documents(documents, doc_index, Q_ENGINEER, 2) :
               /\ Len(res) = 2
               /\ res[1].doc_id = a.doc_id /\ res[1].score = 2
               /\ res[2].doc_id = b.doc_id /\ res[2].score = 1
        /\ \A res \in search_documents(documents, doc_index, Q_ENGINEER, 1) :
               Len(res) = 1 /\ res[1].doc_id = a.doc_id
        /\ search_documents(documents, doc_index, Q_MARKS, 2) = {<<>>}


(***************************************************************************)
(* Classification of the query texts.                                      *)
(***************************************************************************)
\* words a query text is made of: the three text triggers, the three
\* structured triggers (some in upper case or capitalised) and a word that is
\* no trigger but a term of FILE_A
RouteWords ==
    {<<"d", "o", "c", "u", "m", "e", "n", "t">>,
     <<"R", "e", "s", "u", "m", "e">>,
     <<"s", "k", "i", "l", "l">>,
     <<"e", "m", "p", "l", "o", "y", "e", "e">>,
     <<"S", "A", "L", "A", "R", "Y">>,
     <<"h", "i", "r", "e", "d">>,
     <<"p", "y", "t", "h", "o", "n">>}

\* "Resume SALARY", "hired skill", "employee document", "python hired": a
\* trigger of each kind in either order, and a structured trigger after a
\* word that is none
RoutePairs ==
    {<<"R", "e", "s", "u", "m", "e", " ", "S", "A", "L", "A", "R", "Y">>,
     <<"h", "i", "r", "e", "d", " ", "s", "k", "i", "l", "l">>,
     <<"e", "m", "p", "l", "o", "y", "e", "e", " ", "d", "o", "c", "u", "m", "e", "n", "t">>,
     <<"p", "y", "t", "h", "o", "n", " ", "h", "i", "r", "e", "d">>}

\* the query texts
RouteTexts == RouteWords \cup RoutePairs

\* one upload of FILE_A
UploadA ==
    /\ tasks = <<>>
    /\ upload_documents(<<FILE_A>>)

\* a query whose statements the store answers
RouteQuery ==
    /\ Len(returned) < MaxCalls
    /\ \E q \in RouteTexts : query(q, FALSE)

NextRoute == UploadA \/ Begin \/ File \/ Raise \/ Resume \/ RouteQuery

\* queries over the trigger words, interleaved with the ingestion of a file
SpecRoute == Init /\ [][NextRoute]_vars

TEXT_TRIGGERS ==
    {<<"d", "o", "c", "u", "m", "e", "n", "t">>, <<"r", "e", "s", "u", "m", "e">>,
     <<"s", "k", "i", "l", "l">>}

STRUCTURED_TRIGGERS ==
    {<<"e", "m", "p", "l", "o", "y", "e", "e">>, <<"s", "a", "l", "a", "r", "y">>,
     <<"h", "i", "r", "e", "d">>}

\* the text has one of the triggers in it, in any letter case
has_trigger(q, triggers) == \E t \in triggers : Contains(str_lower(q), t)

\* the route the precedence gives a text: text triggers first, then structured
route_by_precedence(q) ==
    IF has_trigger(q, TEXT_TRIGGERS) THEN "doc"
    ELSE IF has_trigger(q, STRUCTURED_TRIGGERS) THEN "sql"
    ELSE "hybrid"

\* this step is a call of process_query that computed its result
computed_step ==
    /\ Len(returned') = Len(returned) + 1
    /\ ~returned'[Len(returned')].present
    /\ ~returned'[Len(returned')].failed

(* C11: classification is total and deterministic with a fixed precedence:     *)
(* every call gets exactly one of the three routes, the same for the same      *)
(* text; a text with a text trigger (document, resume, skill, in any letter    *)
(* case) is routed to doc even when it also has a structured trigger           *)
(* (employee, salary, hired); a text with a structured trigger and no text     *)
(* trigger is routed to sql; every other text is routed to hybrid, and a       *)
(* hybrid query is answered by the text search of the stored documents.        *)
C11_ClassifyPrecedence ==
    /\ [](\A i \in 1..Len(returned) :
              /\ returned[i].result.type \in {"doc", "sql", "hybrid"}
              /\ returned[i].result.type = route_by_precedence(returned[i].query)
              /\ \A j \in 1..Len(returned) :
                     returned[j].query = returned[i].query
                     => returned[j].result.type = returned[i].result.type)
    /\ [][(computed_step /\ returned'[Len(returned')].result.type = "hybrid")
          => returned'[Len(returned')].result.results \in
                 {rows_payload(rows) :
                     rows \in search_documents(documents, doc_index,
                                 returned'[Len(returned')].query, QUERY_TOP_K)}]_vars

\* "Resume SALARY", with a trigger of each kind, was routed to doc, and
\* "python", with none, to hybrid and answered with the stored document
C11_Witness ==
    /\ Len(returned) = 2
    /\ returned[1].query = <<"R", "e", "s", "u", "m", "e", " ", "S", "A", "L", "A", "R", "Y">>
    /\ returned[1].result.type = "doc"
    /\ returned[2].query = <<"p", "y", "t", "h", "o", "n">>
    /\ returned[2].result.type = "hybrid"
    /\ returned[2].result.results.kind = "rows"
    /\ Len(returned[2].result.results.rows) = 1
    /\ returned[2].result.results.rows[1].doc_name = FILE_A.filename


(***************************************************************************)
(* Translation of the query texts.                                         *)
(***************************************************************************)
\* "How many employees do we have?"
T_COUNT ==
    <<"H", "o", "w", " ", "m", "a", "n", "y", " ", "e", "m", "p", "l", "o", "y",
      "e", "e", "s", " ", "d", "o", " ", "w", "e", " ", "h", "a", "v", "e", "?">>

\* "average salary by department"
T_AVERAGE ==
    <<"a", "v", "e", "r", "a", "g", "e", " ", "s", "a", "l", "a", "r", "y", " ",
      "b", "y", " ", "d", "e", "p", "a", "r", "t", "m", "e", "n", "t">>

\* "top 3 highest paid"
T_TOP3 ==
    <<"t", "o", "p", " ", "3", " ", "h", "i", "g", "h", "e", "s", "t", " ", "p",
      "a", "i", "d">>

\* "Top 12 highest paid salary"
T_TOP12 ==
    <<"T", "o", "p", " ", "1", "2", " ", "h", "i", "g", "h", "e", "s", "t", " ",
      "p", "a", "i", "d", " ", "s", "a", "l", "a", "r", "y">>

\* "top highest paid employee"
T_TOP_DEFAULT ==
    <<"t", "o", "p", " ", "h", "i", "g", "h", "e", "s", "t", " ", "p", "a", "i",
      "d", " ", "e", "m", "p", "l", "o", "y", "e", "e">>

\* "top ten highest paid salary"
T_TOP_WORD ==
    <<"t", "o", "p", " ", "t", "e", "n", " ", "h", "i", "g", "h", "e", "s", "t",
      " ", "p", "a", "i", "d", " ", "s", "a", "l", "a", "r", "y">>

\* "employees hired this year"
T_HIRED ==
    <<"e", "m", "p", "l", "o", "y", "e", "e", "s", " ", "h", "i", "r", "e", "d",
      " ", "t", "h", "i", "s", " ", "y", "e", "a", "r">>

\* "list employees"
T_LIST ==
    <<"l", "i", "s", "t", " ", "e", "m", "p", "l", "o", "y", "e", "e", "s">>

\* "how many employees hired this year"
T_COUNT_HIRED ==
    <<"h", "o", "w", " ", "m", "a", "n", "y", " ", "e", "m", "p", "l", "o", "y",
      "e", "e", "s", " ", "h", "i", "r", "e", "d", " ", "t", "h", "i", "s", " ",
      "y", "e", "a", "r">>

\* "average salary by department top 2 highest paid"
T_AVERAGE_TOP ==
    <<"a", "v", "e", "r", "a", "g", "e", " ", "s", "a", "l", "a", "r", "y", " ",
      "b", "y", " ", "d", "e", "p", "a", "r", "t", "m", "e", "n", "t", " ", "t",
      "o", "p", " ", "2", " ", "h", "i", "g", "h", "e", "s", "t", " ", "p", "a",
      "i", "d">>

\* "top 4 highest paid hired this year"
T_TOP_HIRED ==
    <<"t", "o", "p", " ", "4", " ", "h", "i", "g", "h", "e", "s", "t", " ", "p",
      "a", "i", "d", " ", "h", "i", "r", "e", "d", " ", "t", "h", "i", "s", " ",
      "y", "e", "a", "r">>

\* "hired this year: how many employees"
T_HIRED_COUNT ==
    <<"h", "i", "r", "e", "d", " ", "t", "h", "i", "s", " ", "y", "e", "a", "r",
      ":", " ", "h", "o", "w", " ", "m", "a", "n", "y", " ", "e", "m", "p", "l",
      "o", "y", "e", "e", "s">>

TranslateTexts ==
    {T_COUNT, T_AVERAGE, T_TOP3, T_TOP12,
     T_TOP_DEFAULT, T_TOP_WORD, T_HIRED, T_LIST,
     T_COUNT_HIRED, T_AVERAGE_TOP, T_TOP_HIRED, T_HIRED_COUNT}

TranslateQuery ==
    /\ Len(returned) < MaxCalls
    /\ \E q \in TranslateTexts, store_fails \in BOOLEAN : query(q, store_fails)

\* queries over the texts the translation has patterns for
SpecTranslate == Init /\ [][TranslateQuery]_vars

\* the patterns, in the order of their priority
PATTERNS == <<"count-all", "group-average", "top-n", "hired-this-year">>

\* the text matches the pattern, in any letter case
pattern_matches(q, pattern) ==
    LET ql == str_lower(q) IN
    CASE pattern = "count-all" ->
            Contains(ql, <<"h", "o", "w", " ", "m", "a", "n", "y", " ",
                           "e", "m", "p", "l", "o", "y", "e", "e", "s">>)
      [] pattern = "group-average" ->
            Contains(ql, <<"a", "v", "e", "r", "a", "g", "e", " ", "s", "a", "l", "a", "r", "y", " ",
                           "b", "y", " ", "d", "e", "p", "a", "r", "t", "m", "e", "n", "t">>)
      [] pattern = "top-n" ->
            /\ Contains(ql, <<"t", "o", "p">>)
            /\ Contains(ql, <<"h", "i", "g", "h", "e", "s", "t", " ", "p", "a", "i", "d">>)
      [] pattern = "hired-this-year" ->
            Contains(ql, <<"h", "i", "r", "e", "d", " ", "t", "h", "i", "s", " ", "y", "e", "a", "r">>)

\* the first pattern, in the order of priority, that the text matches; "default"
\* when it matches none
first_pattern(q) ==
    LET hits == {n \in 1..Len(PATTERNS) : pattern_matches(q, PATTERNS[n])} IN
    IF hits = {} THEN "default"
    ELSE PATTERNS[CHOOSE n \in hits : \A m \in hits : n <= m]

\* the number written after the first "top " that a digit follows, if any
number_after_top(q) ==
    LET ql == str_lower(q)
        at == top_matches(ql) IN
    IF at = {} THEN {}
    ELSE {parse_int(ql, (CHOOSE i \in at : \A j \in at : i <= j) + 4, 0)}

\* the statement and the parameters of a pattern for the text
statement_of(pattern, q) ==
    CASE pattern = "count-all" ->
            [sql |-> "SELECT COUNT(*) as total FROM employees", params |-> <<>>]
      [] pattern = "group-average" ->
            [sql |-> "SELECT d.dept_name, AVG(e.annual_salary) as avg_salary FROM employees e JOIN departments d ON e.dept_id=d.dept_id GROUP BY d.dept_name",
             params |-> <<>>]
      [] pattern = "top-n" ->
            [sql |-> "SELECT * FROM employees ORDER BY annual_salary DESC LIMIT ?",
             params |-> IF number_after_top(q) = {} THEN <<5>>
                        ELSE <<CHOOSE n \in number_after_top(q) : TRUE>>]
      [] pattern = "hired-this-year" ->
            [sql |-> "SELECT * FROM employees WHERE substr(join_date,1,4)=?",
             params |-> <<CURRENT_YEAR>>]
      [] pattern = "default" ->
            [sql |-> "SELECT * FROM employees LIMIT 10", params |-> <<>>]

(* C12: the translation takes the first pattern, in the order count-all,       *)
(* group-average, top-N, hired-this-year, that the text matches, whatever      *)
(* later patterns match too; the top-N statement is bound to the number        *)
(* written after "top" and to 5 when there is none; a text that matches no     *)
(* pattern gets the default bounded listing, so that a statement is always     *)
(* returned and a query on the structured route that the store answers returns *)
(* the rows of that statement, never the "No SQL generated" error.             *)
C12_TranslateFirstMatch ==
    \A i \in 1..Len(returned) :
        LET q == returned[i].query
            expected == statement_of(first_pattern(q), q) IN
        /\ nl_to_sql(q) = expected
        /\ nl_to_sql(q).sql # ""
        /\ returned[i].result.type = "sql" =>
              /\ returned[i].result.results # error_payload("No SQL generated")
              /\ (~returned[i].present /\ ~returned[i].failed) =>
                     returned[i].result.results =
                         rows_payload(execute_sql(expected.sql, expected.params))

\* "top 4 highest paid hired this year" matches the last two patterns and was
\* answered with the top-N statement bound to 4; "top ten highest paid salary"
\* has no number and was answered with the top-N statement bound to 5
C12_Witness ==
    /\ Len(returned) = 2
    /\ returned[1].query = T_TOP_HIRED
    /\ pattern_matches(T_TOP_HIRED, "top-n")
    /\ pattern_matches(T_TOP_HIRED, "hired-this-year")
    /\ returned[1].result.results = rows_payload(execute_sql(
           "SELECT * FROM employees ORDER BY annual_salary DESC LIMIT ?", <<4>>))
    /\ returned[2].query = T_TOP_WORD
    /\ returned[2].result.results = rows_payload(execute_sql(
           "SELECT * FROM employees ORDER BY annual_salary DESC LIMIT ?", <<5>>))


(***************************************************************************)
(* Consistency of the document store and the index.                        *)
(***************************************************************************)
\* the index rows of a document id
rows_of_doc(index, doc_id) == {row \in BagToSet(index) : row[2] = doc_id}

\* every index row belongs to a stored document and to a term of its text
index_references_documents ==
    \A row \in BagToSet(doc_index) :
        \E d \in documents : d.doc_id = row[2] /\ row[1] \in terms_of(d.content)

\* a document that appears in this step had no index row before it, and
\* the rows that appear in this step are rows of a document that appears
appear_together ==
    /\ \A d \in documents' \ documents : rows_of_doc(doc_index, d.doc_id) = {}
    /\ \A row \in BagToSet(doc_index') \ BagToSet(doc_index) :
           \E d \in documents' \ documents : d.doc_id = row[2]

(* C13: in every state, under any interleaving of the concurrent batches, every *)
(* index row (term, document id) references a stored document, and every       *)
(* stored document has all its index rows: a document and its index rows       *)
(* become visible in one and the same step.                                    *)
C13_IndexConsistent ==
    /\ [](index_references_documents /\ \A d \in documents : index_complete(d))
    /\ [][appear_together]_vars

\* two batches are under way: one has committed its first of two files and is
\* about to read the second, the other has committed its file; three index
\* rows and more are visible
C13_Witness ==
    \E a, b \in started_jobs :
        /\ a # b
        /\ tasks[a].pc = "read"
        /\ tasks[a].i = 2
        /\ tasks[b].pc = "sleep"
        /\ Cardinality(documents) = 2
        /\ \A d \in documents : rows_of_doc(doc_index, d.doc_id) # {}


(***************************************************************************)
(* Query texts that differ in letter case only.                            *)
(***************************************************************************)
\* "NY Engineer"
Q_ENGINEER_CAPS == <<"N", "Y", " ", "E", "n", "g", "i", "n", "e", "e", "r">>

\* "Python Skill"
Q_SKILL_CAPS == <<"P", "y", "t", "h", "o", "n", " ", "S", "k", "i", "l", "l">>

CaseTexts == {Q_ENGINEER, Q_ENGINEER_CAPS, Q_SKILL, Q_SKILL_CAPS}

CaseQuery ==
    /\ Len(returned) < MaxCacheCalls
    /\ \E q \in CaseTexts, store_fails \in BOOLEAN : query(q, store_fails)

\* queries over texts and their capitalised forms
SpecCase == Init /\ [][CaseQuery]_vars

\* the normalized form of a query text: the form the classifier and the
\* translation test, in lower case
normalized(q) == str_lower(q)

(* C14: the cache is keyed by (normalized query text, route): of two calls in  *)
(* a row whose texts have the same normalized form (they differ in letter case *)
(* at most) and so the same route, the second finds the entry of the first and *)
(* is answered as a cache hit.                                                 *)
C14_NormalizedKeyShared ==
    \A i \in 1..(Len(returned) - 1) :
        (/\ normalized(returned[i].query) = normalized(returned[i + 1].query)
         /\ returned[i].result.type = simple_query_classifier(returned[i + 1].query))
        => /\ returned[i + 1].present
           /\ returned[i + 1].result.cached = TRUE


(***************************************************************************)
(* Independence of the job records.                                        *)
(***************************************************************************)
\* the record of a job as a read of the table gives it
record_of(table, job_id) == dict_get(table, job_id, NOT_FOUND)

\* the jobs whose task takes no step in this step keep their record
others_unchanged ==
    \A job_id \in DOMAIN tasks :
        (job_id \in DOMAIN tasks' /\ tasks'[job_id] = tasks[job_id])
        => record_of(INGEST_STATUS', job_id) = record_of(INGEST_STATUS, job_id)

\* the record counts exactly the documents the job's own task has committed,
\* and a record marked done counts all the files of its own batch
counts_own_documents(job_id) ==
    /\ INGEST_STATUS[job_id].processed = Len(tasks[job_id].doc_ids)
    /\ INGEST_STATUS[job_id].total = Len(tasks[job_id].files)
    /\ INGEST_STATUS[job_id].done =>
           INGEST_STATUS[job_id].processed = Len(tasks[job_id].files)

(* C15: the job records of concurrent batches do not interfere: a step of a     *)
(* batch (create the record, advance processed, set the completion flag)       *)
(* changes the record of its own job id only and leaves every other record as  *)
(* it was; no increment is lost, the count of a job being in every state the   *)
(* number of documents its own task has committed; and in any interleaving a   *)
(* job that is marked done has processed equal to its own number of files.     *)
C15_JobsDoNotInterfere ==
    /\ [][others_unchanged]_vars
    /\ [](\A job_id \in started_jobs : counts_own_documents(job_id))

\* a batch of one file and a batch of two ran interleaved (the first drew its
\* document id between the two of the second) and both are done, one with
\* processed = 1 and the other with processed = 2
C15_Witness ==
    \E a, b \in started_jobs :
        /\ INGEST_STATUS[a] = [total |-> 1, processed |-> 1, done |-> TRUE]
        /\ INGEST_STATUS[b] = [total |-> 2, processed |-> 2, done |-> TRUE]
        /\ tasks[b].doc_ids[1] < tasks[a].doc_ids[1]
        /\ tasks[a].doc_ids[1] < tasks[b].doc_ids[2]


(***************************************************************************)
(* The event loop: the ready queue is served first in, first out.  A       *)
(* status request names a job id a response has carried (or an id none     *)
(* has), so its handler is scheduled after the upload that drew the id has *)
(* returned.  The later steps of a task wait for the read of a file or for *)
(* sleep(0) and are taken at any time.                                     *)
(***************************************************************************)
\* the callback that serves a status request received
status_handler(job_id) == [callback |-> "ingest_status", job_id |-> job_id]

\* the status requests waiting in the queue
pending_status == {n \in 1..Len(ready) : ready[n].callback = "ingest_status"}

\* a status request arrives: its handler is put at the end of the queue.  The
\* request names a job id an upload has returned, or an id that no upload
\* returns (0 here): a uuid4 value cannot be named before it is returned
ReceiveStatus ==
    /\ Cardinality(pending_status) < MaxPending
    /\ \E job_id \in DOMAIN tasks \cup {0} :
           ready' = Append(ready, status_handler(job_id))
    /\ UNCHANGED <<ingest_vars, query_vars, response>>

\* the loop runs the first step of a task, at the head of the queue
RunTask ==
    /\ ready # <<>>
    /\ Head(ready).callback = "process_documents"
    /\ process_documents_begin(Head(ready).job_id)

\* the loop runs the handler of a status request, at the head of the queue
ServeStatus ==
    /\ ready # <<>>
    /\ Head(ready).callback = "ingest_status"
    /\ ingest_status(Head(ready).job_id)
    /\ ready' = Tail(ready)

\* an upload of no file or of one file
UploadSmall ==
    /\ Cardinality(DOMAIN tasks) < MaxJobs
    /\ \E files \in {<<>>, <<FILE_A>>} : upload_documents(files)

NextLoop == UploadSmall \/ ReceiveStatus \/ RunTask \/ ServeStatus \/ File \/ Raise \/ Resume

SpecLoop == Init /\ [][NextLoop]_vars

\* a record that appears in this step is that of a job not yet counted, and of
\* a job not done unless its batch is empty
record_starts_blank ==
    \A job_id \in DOMAIN INGEST_STATUS' \ DOMAIN INGEST_STATUS :
        /\ INGEST_STATUS'[job_id].processed = 0
        /\ INGEST_STATUS'[job_id].total > 0 => ~INGEST_STATUS'[job_id].done

held_result(i) == heap[returned[i].obj]

(* C17: the cache-hit flag records the provenance of one call only: the flag   *)
(* of a result on return is true exactly when its key was in the cache when    *)
(* the call started, and the result a call returned keeps that flag after any  *)
(* later calls, later hits on the same key included: a result returned as a    *)
(* miss stays flagged false.                                                   *)
C17_FlagKeepsProvenance ==
    \A i \in 1..Len(returned) :
        /\ returned[i].result.cached = returned[i].present
        /\ held_result(i).cached = returned[i].present


(***************************************************************************)
(* The count of a job and the committed documents of its batch.            *)
(***************************************************************************)
\* the committed documents of the batch of job_id
committed_docs(job_id) ==
    {d \in documents : \E i \in 1..Len(tasks[job_id].doc_ids) : tasks[job_id].doc_ids[i] = d.doc_id}

(* C18: in every state a status read or a query can observe, the processed     *)
(* count of a job is the number of documents of its batch that are committed   *)
(* in the store: a counted document is committed together with its index       *)
(* entries, and no document is committed that is not counted in its job.       *)
C18_CountMatchesCommitted ==
    /\ \A job_id \in DOMAIN tasks :
           IF job_id \in started_jobs
           THEN INGEST_STATUS[job_id].processed = Cardinality(committed_docs(job_id))
           ELSE committed_docs(job_id) = {}
    /\ counted_docs_indexed
    /\ documents \subseteq counted_docs

\* a batch of two files has committed and counted its first file and waits in
\* sleep(0), while a batch of one file, started meanwhile, has created its
\* record and committed nothing
C18_Witness ==
    \E a, b \in started_jobs :
        /\ INGEST_STATUS[a] = [total |-> 2, processed |-> 1, done |-> FALSE]
        /\ tasks[a].pc = "sleep"
        /\ Cardinality(committed_docs(a)) = 1
        /\ INGEST_STATUS[b] = [total |-> 1, processed |-> 0, done |-> FALSE]
        /\ committed_docs(b) = {}

====
